---- MODULE Spec2Model ----
(***************************************************************************)
(* A model of the picross crate: the board (struct Picross), its validator *)
(* (is_valid), its parser (get_integer, get_specs, fill_specs, parse) and  *)
(* its renderer (specs_to_strings, max_len_non_empty, to_string / fmt).    *)
(*                                                                         *)
(* Rust vectors and strings are sequences; a String is a sequence of       *)
(* one-character strings.  Rust indices are 0-based, the sequences here    *)
(* are 1-based, so v[i] of the source is v[i + 1] here.  A panic is an     *)
(* outcome of its own, never merged with a returned value.                 *)
(***************************************************************************)
EXTENDS Integers, Sequences, FiniteSets

VARIABLES picross, data, out

vars == <<picross, data, out>>

(***************************************************************************)
(* Bounds of the model.                                                    *)
(***************************************************************************)
\* largest height and length of a board
MaxDim == 2
\* largest run length written in a clue of a validated board
MaxRun == 2
\* largest number of runs in a clue
MaxClueLen == 2
\* largest number of characters of a token given to get_specs or get_integer
MaxTokenLen == 5
\* largest number of tokens of a stream given to parse
MaxTokens == 5

Min(a, b) == IF a <= b THEN a ELSE b

\* all sequences over S of length 0..n
SeqUpTo(S, n) == UNION {[1..k -> S] : k \in 0..n}

(***************************************************************************)
(* The data model: enum Cell and struct Picross.                           *)
(***************************************************************************)
Cell == {"Unknown", "Black", "White"}

\* the struct literal Picross { height, length, row_spec, col_spec, cells }
Picross(h, l, rs, cs, c) ==
    [height |-> h, length |-> l, row_spec |-> rs, col_spec |-> cs, cells |-> c]

\* the value of `picross` while no board is under consideration
NoBoard == Picross(0, 0, <<>>, <<>>, <<>>)

\* the value of `out` before any operation has run
NoOut == [op |-> "none"]

(***************************************************************************)
(* is_valid                                                                *)
(***************************************************************************)
\* the same test without `any(|r| self.length != r.len())`
cells_inconsistent_norows(p) ==
    p.height # Len(p.cells)

\* self.height != self.cells.len() || self.cells.iter().any(|r| self.length != r.len())
cells_inconsistent(p) ==
    \/ p.height # Len(p.cells)
    \/ \E y \in 1..Len(p.cells) : p.length # Len(p.cells[y])

\* self.height != self.row_spec.len() || self.length != self.col_spec.len()
specs_inconsistent(p) ==
    \/ p.height # Len(p.row_spec)
    \/ p.length # Len(p.col_spec)

\* the closing test without `size_block != spec[num_block]`
block_mismatch_nosize(spec, num_block, size_block) ==
    num_block >= Len(spec)

\* the closing test of a block: num_block >= spec.len() || size_block != spec[num_block]
block_mismatch(spec, num_block, size_block) ==
    \/ num_block >= Len(spec)
    \/ size_block # spec[num_block + 1]

\* the same scan without the final `if num_block != spec.len()`
RECURSIVE line_matches_nocount(_, _, _, _, _)
line_matches_nocount(spec, line, i, num_block, size_block) ==
    IF i > Len(line)
    THEN IF size_block > 0
         THEN ~block_mismatch(spec, num_block, size_block)
         ELSE TRUE
    ELSE CASE line[i] = "Unknown" -> FALSE
           [] line[i] = "Black" ->
                line_matches_nocount(spec, line, i + 1, num_block, size_block + 1)
           [] line[i] = "White" ->
                IF size_block > 0
                THEN /\ ~block_mismatch(spec, num_block, size_block)
                     /\ line_matches_nocount(spec, line, i + 1, num_block + 1, 0)
                ELSE line_matches_nocount(spec, line, i + 1, num_block, size_block)

\* the same scan with Unknown read as White
RECURSIVE line_matches_unknown(_, _, _, _, _)
line_matches_unknown(spec, line, i, num_block, size_block) ==
    IF i > Len(line)
    THEN IF size_block > 0
         THEN /\ ~block_mismatch(spec, num_block, size_block)
              /\ num_block + 1 = Len(spec)
         ELSE num_block = Len(spec)
    ELSE CASE line[i] = "Black" ->
                line_matches_unknown(spec, line, i + 1, num_block, size_block + 1)
           [] OTHER ->
                IF size_block > 0
                THEN /\ ~block_mismatch(spec, num_block, size_block)
                     /\ line_matches_unknown(spec, line, i + 1, num_block + 1, 0)
                ELSE line_matches_unknown(spec, line, i + 1, num_block, size_block)

\* The body of `for (spec, line) in iter`: the scan of one line from its
\* cell i on, with the counters num_block and size_block.  TRUE when the body
\* runs to its end, FALSE when it executes `return false`.
RECURSIVE line_matches_from(_, _, _, _, _)
line_matches_from(spec, line, i, num_block, size_block) ==
    IF i > Len(line)
    THEN IF size_block > 0
         THEN /\ ~block_mismatch(spec, num_block, size_block)
              /\ num_block + 1 = Len(spec)
         ELSE num_block = Len(spec)
    ELSE CASE line[i] = "Unknown" -> FALSE
           [] line[i] = "Black" ->
                line_matches_from(spec, line, i + 1, num_block, size_block + 1)
           [] line[i] = "White" ->
                IF size_block > 0
                THEN /\ ~block_mismatch(spec, num_block, size_block)
                     /\ line_matches_from(spec, line, i + 1, num_block + 1, 0)
                ELSE line_matches_from(spec, line, i + 1, num_block, size_block)

\* one pass of the loop body over a whole line (num_block = 0, size_block = 0)
line_matches(spec, line) == line_matches_from(spec, line, 1, 0, 0)

\* (0..self.length).map(|x| self.cells.iter().map(|r| r[x].clone()).collect())
\* for the 0-based x - 1; r[x] panics when a row is too short
column_in_range(p, x) == \A y \in 1..Len(p.cells) : x <= Len(p.cells[y])

column(p, x) == [y \in 1..Len(p.cells) |-> p.cells[y][x]]

\* The chained iterator, consumed from its k-th pair on: the rows zipped with
\* row_spec, then the columns zipped with col_spec (zip stops at the shorter
\* side).  "true" / "false" as returned, "panic" for an index out of range.
RECURSIVE lines_match_from(_, _)
lines_match_from(p, k) ==
    LET nr == Min(Len(p.row_spec), Len(p.cells))
        nc == Min(Len(p.col_spec), p.length)
    IN  IF k > nr + nc THEN "true"
        ELSE IF k <= nr
        THEN IF line_matches(p.row_spec[k], p.cells[k])
             THEN lines_match_from(p, k + 1)
             ELSE "false"
        ELSE IF ~column_in_range(p, k - nr) THEN "panic"
        ELSE IF line_matches(p.col_spec[k - nr], column(p, k - nr))
             THEN lines_match_from(p, k + 1)
             ELSE "false"

\* pub fn is_valid(&self) -> bool
is_valid(p) ==
    IF cells_inconsistent(p) THEN "false"
    ELSE IF specs_inconsistent(p) THEN "false"
    ELSE lines_match_from(p, 1)

(***************************************************************************)
(* The parser: get_integer, get_specs, fill_specs and parse.  A token is a *)
(* &str, here a sequence of one-character strings.  A call either returns  *)
(* (ok = TRUE) or panics (ok = FALSE) with the message of its expect or    *)
(* panic!: the text without the values interpolated into it, then the name *)
(* interpolated by get_integer.                                            *)
(***************************************************************************)
Digits == {"0", "1", "2", "3", "4", "5", "6", "7", "8", "9"}

\* char::to_digit(10) of a decimal digit
DigitValue(c) ==
    CASE c = "0" -> 0 [] c = "1" -> 1 [] c = "2" -> 2 [] c = "3" -> 3 [] c = "4" -> 4
      [] c = "5" -> 5 [] c = "6" -> 6 [] c = "7" -> 7 [] c = "8" -> 8 [] c = "9" -> 9

Ok(v) == [ok |-> TRUE, val |-> v]

Panic(m) == [ok |-> FALSE, msg |-> m]

\* the accumulation loop of usize::from_str_radix(_, 10): result * 10 + digit
RECURSIVE from_digits(_, _, _)
from_digits(d, i, result) ==
    IF i > Len(d) THEN result
    ELSE from_digits(d, i + 1, result * 10 + DigitValue(d[i]))

\* x.parse::<usize>(): an optional '+', then one or more decimal digits.
\* (The tokens of this model are too short for the value to overflow usize.)
parse_usize(s) ==
    IF Len(s) = 0 THEN [ok |-> FALSE]
    ELSE LET d == IF s[1] = "+" THEN Tail(s) ELSE s
         IN  IF Len(d) = 0 \/ \E i \in 1..Len(d) : d[i] \notin Digits
             THEN [ok |-> FALSE]
             ELSE Ok(from_digits(d, 1, 0))

\* Option<&str>: what data.next() gives
Some(t) == [some |-> TRUE, val |-> t]

None == [some |-> FALSE]

\* data.next() on the stream d
next(d) == IF Len(d) = 0 THEN None ELSE Some(Head(d))

\* pub fn get_integer(data: Option<&str>, name: &str) -> usize
get_integer(d, name) ==
    IF ~d.some THEN Panic(<<"Expected to find a !", name>>)
    ELSE LET r == parse_usize(d.val)
         IN  IF r.ok THEN Ok(r.val) ELSE Panic(<<"Expected integer !", name>>)

\* s.split(','): the pieces between the commas, empty pieces included
RECURSIVE split(_, _)
split(s, sep) ==
    IF \A i \in 1..Len(s) : s[i] # sep THEN <<s>>
    ELSE LET c == CHOOSE i \in 1..Len(s) :
                      s[i] = sep /\ \A j \in 1..(i - 1) : s[j] # sep
         IN  <<SubSeq(s, 1, c - 1)>> \o split(SubSeq(s, c + 1, Len(s)), sep)

\* pub fn get_specs(s: &str) -> Vec<usize>  (lib.rs; parse.rs has the same body)
get_specs(s) ==
    IF Len(s) < 2 \/ s[1] # "[" \/ s[Len(s)] # "]"
    THEN Panic(<<"Expected '' to be of form [1,4,3...]">>)
    ELSE LET inner == SubSeq(s, 2, Len(s) - 1)
             pieces == split(inner, ",")
         IN  IF Len(inner) = 0 THEN Ok(<<>>)
             ELSE IF \E k \in 1..Len(pieces) : ~parse_usize(pieces[k]).ok
             THEN Panic(<<"Expected integer and found '' in ''">>)
             ELSE Ok([k \in 1..Len(pieces) |-> parse_usize(pieces[k]).val])

\* the outcome of fill_specs: the vector as filled and the stream as left
Filled(specs, d) == [ok |-> TRUE, specs |-> specs, data |-> d]

\* fill_specs that gives up silently when the stream ends
RECURSIVE fill_specs_short(_, _, _)
fill_specs_short(size, specs, d) ==
    IF size = 0 THEN Filled(specs, d)
    ELSE IF ~next(d).some THEN Filled(specs, d)
    ELSE LET r == get_specs(next(d).val)
         IN  IF ~r.ok THEN r
             ELSE fill_specs_short(size - 1, Append(specs, r.val), Tail(d))

\* fill_specs that pulls one token more than it pushes
RECURSIVE fill_specs_greedy(_, _, _)
fill_specs_greedy(size, specs, d) ==
    IF size = 0 THEN Filled(specs, IF Len(d) = 0 THEN d ELSE Tail(d))
    ELSE IF ~next(d).some THEN Panic(<<"Wrong number of specifications!">>)
    ELSE LET r == get_specs(next(d).val)
         IN  IF ~r.ok THEN r
             ELSE fill_specs_greedy(size - 1, Append(specs, r.val), Tail(d))

\* pub fn fill_specs(size, specs: &mut Vec<Vec<usize>>, data: &mut Iterator<Item=&str>)
RECURSIVE fill_specs(_, _, _)
fill_specs(size, specs, d) ==
    IF size = 0 THEN Filled(specs, d)
    ELSE IF ~next(d).some THEN Panic(<<"Wrong number of specifications!">>)
    ELSE LET r == get_specs(next(d).val)
         IN  IF ~r.ok THEN r
             ELSE fill_specs(size - 1, Append(specs, r.val), Tail(d))

\* vec![vec![Cell::Unknown; length]; height]
unknown_cells(height, length) == [y \in 1..height |-> [x \in 1..length |-> "Unknown"]]

\* the outcome of parse: the board returned and the stream as left
Parsed(p, d) == [ok |-> TRUE, val |-> p, data |-> d]

\* parse that reads the column clues before the row clues
parse_cols_first(d) ==
    LET h == get_integer(next(d), "height")
    IN  IF ~h.ok THEN h ELSE
    LET d1 == Tail(d)
        l  == get_integer(next(d1), "length")
    IN  IF ~l.ok THEN l ELSE
    LET d2 == Tail(d1)
        cs == fill_specs(l.val, <<>>, d2)
    IN  IF ~cs.ok THEN cs ELSE
    LET rs == fill_specs(h.val, <<>>, cs.data)
    IN  IF ~rs.ok THEN rs ELSE
        Parsed(Picross(h.val, l.val, rs.specs, cs.specs,
                       unknown_cells(h.val, l.val)), rs.data)

\* pub fn parse(data: &mut Iterator<Item=&str>) -> Picross  (lib.rs)
parse(d) ==
    LET h == get_integer(next(d), "height")
    IN  IF ~h.ok THEN h ELSE
    LET d1 == Tail(d)
        l  == get_integer(next(d1), "length")
    IN  IF ~l.ok THEN l ELSE
    LET d2 == Tail(d1)
        rs == fill_specs(h.val, <<>>, d2)
    IN  IF ~rs.ok THEN rs ELSE
    LET cs == fill_specs(l.val, <<>>, rs.data)
    IN  IF ~cs.ok THEN cs ELSE
        Parsed(Picross(h.val, l.val, rs.specs, cs.specs,
                       unknown_cells(h.val, l.val)), cs.data)

\* data.map(Picross::get_specs).take(n).collect(), from parse.rs: at most n
\* tokens are pulled, each is parsed as it is pulled, and the end of the
\* stream ends the collection
RECURSIVE take_specs(_, _, _)
take_specs(n, specs, d) ==
    IF n = 0 THEN Filled(specs, d)
    ELSE IF ~next(d).some THEN Filled(specs, d)
    ELSE LET r == get_specs(next(d).val)
         IN  IF ~r.ok THEN r
             ELSE take_specs(n - 1, Append(specs, r.val), Tail(d))

\* pub fn parse<T: Borrow<str>>(data: &mut Iterator<Item=T>) -> Picross  (parse.rs)
parse_rs(d) ==
    LET h == parse_usize(IF next(d).some THEN next(d).val ELSE <<>>)
    IN  IF ~next(d).some THEN Panic(<<"Expected to find a !", "height">>)
        ELSE IF ~h.ok THEN Panic(<<"Expected integer !", "height">>) ELSE
    LET d1 == Tail(d)
        l  == parse_usize(IF next(d1).some THEN next(d1).val ELSE <<>>)
    IN  IF ~next(d1).some THEN Panic(<<"Expected to find a !", "length">>)
        ELSE IF ~l.ok THEN Panic(<<"Expected integer !", "length">>) ELSE
    LET d2 == Tail(d1)
        rs == take_specs(h.val, <<>>, d2)
    IN  IF ~rs.ok THEN rs ELSE
    LET cs == take_specs(l.val, <<>>, rs.data)
    IN  IF ~cs.ok THEN cs
        ELSE IF Len(rs.specs) # h.val \/ Len(cs.specs) # l.val
        THEN Panic(<<"Wrong number of specifications given!">>)
        ELSE Parsed(Picross(h.val, l.val, rs.specs, cs.specs,
                            unknown_cells(h.val, l.val)), cs.data)

(***************************************************************************)
(* The renderer: specs_to_strings, max_len_non_empty and to_string of      *)
(* lib.rs, and Display::fmt of display.rs.  The text is a sequence of      *)
(* characters, "\n" among them.                                            *)
(***************************************************************************)
\* char::from_digit(n, 10)
DigitChar(n) ==
    CASE n = 0 -> "0" [] n = 1 -> "1" [] n = 2 -> "2" [] n = 3 -> "3" [] n = 4 -> "4"
      [] n = 5 -> "5" [] n = 6 -> "6" [] n = 7 -> "7" [] n = 8 -> "8" [] n = 9 -> "9"

\* x.to_string() of a usize: its decimal digits, the most significant first
RECURSIVE usize_to_string(_)
usize_to_string(x) ==
    IF x < 10 THEN <<DigitChar(x)>>
    ELSE usize_to_string(x \div 10) \o <<DigitChar(x % 10)>>

\* strs.join(sep)
RECURSIVE join(_, _)
join(strs, sep) ==
    IF Len(strs) = 0 THEN <<>>
    ELSE IF Len(strs) = 1 THEN strs[1]
    ELSE strs[1] \o sep \o join(Tail(strs), sep)

\* pub fn specs_to_strings(specs: &Vec<Vec<usize>>) -> Vec<String>
specs_to_strings(specs) ==
    [i \in 1..Len(specs) |->
        join([k \in 1..Len(specs[i]) |-> usize_to_string(specs[i][k])], <<" ">>)]

\* pub fn max_len_non_empty(specs: &Vec<String>) -> usize
max_len_non_empty(specs) ==
    IF Len(specs) = 0 THEN Panic(<<"Not supporting empty picross grids!">>)
    ELSE Ok(CHOOSE m \in {Len(specs[i]) : i \in 1..Len(specs)} :
                \A i \in 1..Len(specs) : Len(specs[i]) <= m)

\* vec![c; n].join("") and iter::repeat(c).take(n).collect::<String>()
repeat(c, n) == [i \in 1..n |-> c]

\* c.chars().nth(n).unwrap_or(' ') for the 0-based n
nth_or_space(c, n) == IF n < Len(c) THEN c[n + 1] ELSE " "

\* the header line that indexes each clue string from its first character
\* and pads it above
header_line_downwards(line_begin, col_spec, max_cs_len, i) ==
    line_begin \o <<"|">>
        \o [x \in 1..Len(col_spec) |->
              LET pad == max_cs_len - Len(col_spec[x])
              IN  IF i < pad THEN " " ELSE col_spec[x][i - pad + 1]]
        \o <<"\n">>

\* the body of `for i in 0..max_cs_len`: one line of the header
header_line(line_begin, col_spec, max_cs_len, i) ==
    line_begin \o <<"|">>
        \o [x \in 1..Len(col_spec) |-> nth_or_space(col_spec[x], max_cs_len - i - 1)]
        \o <<"\n">>

\* the header loop from its pass i on
RECURSIVE header_from(_, _, _, _)
header_from(line_begin, col_spec, max_cs_len, i) ==
    IF i >= max_cs_len THEN <<>>
    ELSE header_line(line_begin, col_spec, max_cs_len, i)
            \o header_from(line_begin, col_spec, max_cs_len, i + 1)

\* the header separator with max_rs_len dashes on both sides of the '+'
separator_margin_twice(max_rs_len, length) ==
    repeat("-", max_rs_len) \o <<"+">> \o repeat("-", max_rs_len) \o <<"\n">>

\* the header separator
separator(max_rs_len, length) ==
    repeat("-", max_rs_len) \o <<"+">> \o repeat("-", length) \o <<"\n">>

\* the match with the characters of White and Black exchanged
cell_char_exchanged(c) ==
    CASE c = "Unknown" -> "?" [] c = "White" -> "#" [] c = "Black" -> " "

\* match *c { Cell::Unknown => '?', Cell::White => ' ', Cell::Black => '#' }
cell_char(c) ==
    CASE c = "Unknown" -> "?" [] c = "White" -> " " [] c = "Black" -> "#"

\* the body of `for i in 0..self.height` for the 0-based i, when row_spec[i]
\* and self.cells[i] exist
row_line(p, row_spec, max_rs_len, i) ==
    repeat(" ", max_rs_len - Len(row_spec[i + 1])) \o row_spec[i + 1] \o <<"|">>
        \o [x \in 1..Len(p.cells[i + 1]) |-> cell_char(p.cells[i + 1][x])]
        \o <<"\n">>

\* the row loop from its pass i on, res being the text so far; row_spec[i]
\* and then self.cells[i] panic when i is out of range
RECURSIVE rows_from(_, _, _, _, _)
rows_from(p, row_spec, max_rs_len, i, res) ==
    IF i >= p.height THEN Ok(res)
    ELSE IF i >= Len(row_spec) \/ i >= Len(p.cells)
    THEN Panic(<<"index out of bounds">>)
    ELSE rows_from(p, row_spec, max_rs_len, i + 1,
                   res \o row_line(p, row_spec, max_rs_len, i))

\* pub fn to_string(&self) -> String  (lib.rs)
to_string(p) ==
    LET row_spec == specs_to_strings(p.row_spec)
        col_spec == specs_to_strings(p.col_spec)
        max_rs_len == max_len_non_empty(row_spec)
        max_cs_len == max_len_non_empty(col_spec)
    IN  IF ~max_rs_len.ok THEN max_rs_len
        ELSE IF ~max_cs_len.ok THEN max_cs_len
        ELSE LET line_begin == repeat(" ", max_rs_len.val)
             IN  rows_from(p, row_spec, max_rs_len.val, 0,
                    header_from(line_begin, col_spec, max_cs_len.val, 0)
                        \o separator(max_rs_len.val, p.length))

\* fn fmt(&self, f: &mut Formatter) -> Result  (display.rs): the text written
\* to f, by the same steps with write_str and write_char
fmt(p) ==
    LET row_spec == specs_to_strings(p.row_spec)
        col_spec == specs_to_strings(p.col_spec)
        max_rs_len == max_len_non_empty(row_spec)
        max_cs_len == max_len_non_empty(col_spec)
    IN  IF ~max_rs_len.ok THEN max_rs_len
        ELSE IF ~max_cs_len.ok THEN max_cs_len
        ELSE LET line_begin == repeat(" ", max_rs_len.val)
             IN  rows_from(p, row_spec, max_rs_len.val, 0,
                    header_from(line_begin, col_spec, max_cs_len.val, 0)
                        \o separator(max_rs_len.val, p.length))

(***************************************************************************)
(* The validator's specification: a board written as a struct literal (of  *)
(* consistent sizes, or of any sizes), validated, and its cells rewritten. *)
(***************************************************************************)
\* the clues of the boards that are validated
Clues == SeqUpTo(0..MaxRun, MaxClueLen)

\* the clues of the boards whose sizes disagree
SkewClues == {<<>>, <<1>>}

InitValid ==
    /\ \E h \in 0..MaxDim, l \in 0..MaxDim :
         \/ \E rs \in [1..h -> Clues], cs \in [1..l -> Clues],
               c \in [1..h -> [1..l -> Cell]] :
                 picross = Picross(h, l, rs, cs, c)
         \/ \E rs \in SeqUpTo(SkewClues, MaxDim), cs \in SeqUpTo(SkewClues, MaxDim),
               c \in SeqUpTo(SeqUpTo(Cell, MaxDim), MaxDim) :
                 picross = Picross(h, l, rs, cs, c)
    /\ data = <<>>
    /\ out = NoOut

\* a call of is_valid; `before` keeps the verdict the board had before its
\* last cell was rewritten
IsValid ==
    /\ out.op # "is_valid"
    /\ out' = [op |-> "is_valid", ret |-> is_valid(picross),
               before |-> IF out.op = "set_cell" THEN out.before ELSE "none"]
    /\ UNCHANGED <<picross, data>>

\* picross.cells[y][x] = v, on a board that has just been validated
SetCell ==
    /\ out.op = "is_valid"
    /\ out.before = "none"
    /\ \E y \in 1..Len(picross.cells) : \E x \in 1..Len(picross.cells[y]) :
         \E v \in Cell \ {picross.cells[y][x]} :
            picross' = [picross EXCEPT !.cells[y][x] = v]
    /\ out' = [op |-> "set_cell", before |-> out.ret]
    /\ UNCHANGED data

NextValid == IsValid \/ SetCell

SpecValid == InitValid /\ [][NextValid]_vars

(***************************************************************************)
(* What the validator is to decide, stated on the board and not on the     *)
(* scan: the maximal runs of Black cells of a line.                        *)
(***************************************************************************)
\* the positions at which a maximal run of Black cells begins
RunStarts(line) ==
    {i \in 1..Len(line) : line[i] = "Black" /\ (i = 1 \/ line[i - 1] # "Black")}

\* the position at which the maximal run that begins at s ends
RunEnd(line, s) ==
    CHOOSE e \in s..Len(line) :
        /\ \A j \in s..e : line[j] = "Black"
        /\ (e = Len(line) \/ line[e + 1] # "Black")

\* the lengths of the maximal runs of Black cells, in the order of the line
RunLengths(line) ==
    LET S == RunStarts(line)
        start(k) == CHOOSE s \in S : Cardinality({t \in S : t < s}) = k - 1
    IN  [k \in 1..Cardinality(S) |-> RunEnd(line, start(k)) - start(k) + 1]

\* a line without Unknown whose runs are the clue, element for element
LineSatisfies(clue, line) ==
    /\ \A i \in 1..Len(line) : line[i] # "Unknown"
    /\ RunLengths(line) = clue

\* cells has height rows of length cells, row_spec height and col_spec length entries
SizesConsistent(p) ==
    /\ Len(p.cells) = p.height
    /\ \A y \in 1..Len(p.cells) : Len(p.cells[y]) = p.length
    /\ Len(p.row_spec) = p.height
    /\ Len(p.col_spec) = p.length

\* every row and every column of a board of consistent sizes satisfies its clue
BoardSatisfies(p) ==
    /\ \A y \in 1..p.height : LineSatisfies(p.row_spec[y], p.cells[y])
    /\ \A x \in 1..p.length :
         LineSatisfies(p.col_spec[x], [y \in 1..p.height |-> p.cells[y][x]])

HasUnknown(p) ==
    \E y \in 1..Len(p.cells) : \E x \in 1..Len(p.cells[y]) : p.cells[y][x] = "Unknown"

C2_SkewedIsFalse ==
    (out.op = "is_valid" /\ ~SizesConsistent(picross)) => out.ret = "false"

\* a board that disagrees only in the length of one of its rows was rejected
C2_Witness ==
    /\ out.op = "is_valid" /\ out.ret = "false"
    /\ Len(picross.cells) = picross.height
    /\ Len(picross.row_spec) = picross.height
    /\ Len(picross.col_spec) = picross.length
    /\ \E y \in 1..Len(picross.cells) : Len(picross.cells[y]) < picross.length

\* C3: a board with an Unknown cell anywhere in its grid is not valid.
C3_UnknownIsFalse ==
    (out.op = "is_valid" /\ HasUnknown(picross)) => out.ret = "false"

\* a board of consistent sizes was rejected that has an Unknown cell and
\* whose clues are those of the same board with White in its place
C3_Witness ==
    /\ out.op = "is_valid" /\ out.ret = "false"
    /\ SizesConsistent(picross)
    /\ HasUnknown(picross)
    /\ BoardSatisfies([picross EXCEPT !.cells =
            [y \in 1..picross.height |-> [x \in 1..picross.length |->
                IF picross.cells[y][x] = "Unknown" THEN "White" ELSE picross.cells[y][x]]]])

\* C4: after one cell of a board found valid is given another value (the
\* clues and the other cells kept), is_valid returns false.
C4_OneCellChangeInvalidates ==
    (out.op = "is_valid" /\ out.before = "true") => out.ret = "false"

\* a valid board was changed in one cell from Black to White and validated again
C4_Witness ==
    /\ out.op = "is_valid" /\ out.before = "true" /\ out.ret = "false"
    /\ ~HasUnknown(picross)
    /\ \E y \in 1..picross.height : \E x \in 1..picross.length :
         /\ picross.cells[y][x] = "White"
         /\ BoardSatisfies([picross EXCEPT !.cells[y][x] = "Black"])

(***************************************************************************)
(* The specification of the token functions: one token, of any characters  *)
(* of Alphabet, is given to get_specs or (as data.next()) to get_integer.  *)
(***************************************************************************)
Alphabet == {"[", "]", "(", ",", " ", "+", "-", "a", "0", "1", "2"}

InitToken ==
    /\ picross = NoBoard
    /\ data \in SeqUpTo(SeqUpTo(Alphabet, MaxTokenLen), 1)
    /\ out = NoOut

\* Picross::get_specs(token)
GetSpecs ==
    /\ out.op = "none"
    /\ Len(data) = 1
    /\ out' = [op |-> "get_specs", input |-> data, ret |-> get_specs(data[1])]
    /\ UNCHANGED <<picross, data>>

\* Picross::get_integer(data.next(), "height")
GetInteger ==
    /\ out.op = "none"
    /\ out' = [op |-> "get_integer", input |-> data,
               ret |-> get_integer(next(data), "height")]
    /\ data' = IF Len(data) = 0 THEN data ELSE Tail(data)
    /\ UNCHANGED picross

NextToken == GetSpecs \/ GetInteger

SpecToken == InitToken /\ [][NextToken]_vars

(***************************************************************************)
(* The specification of parse: a stream of tokens is given to parse of     *)
(* lib.rs or to parse of parse.rs.  A call that returns leaves in `data`   *)
(* the tokens it has not taken and in `picross` the board; a call that     *)
(* panics returns nothing, and the stream is not looked at again.          *)
(***************************************************************************)
StreamTokens ==
    { <<"0">>, <<"1">>, <<"2">>, <<"+", "1">>, <<"a">>,
      <<"[", "]">>, <<"[", "1", "]">>, <<"[", "2", ",", "1", "]">>, <<"[", "1">> }

InitParse ==
    /\ picross = NoBoard
    /\ data \in SeqUpTo(StreamTokens, MaxTokens)
    /\ out = NoOut

\* Picross::parse(&mut data) of lib.rs
Parse ==
    /\ out.op = "none"
    /\ LET r == parse(data)
       IN  /\ out' = [op |-> "parse", input |-> data, ret |-> r]
           /\ data' = IF r.ok THEN r.data ELSE data
           /\ picross' = IF r.ok THEN r.val ELSE picross

\* Picross::parse(&mut data) of parse.rs
ParseRs ==
    /\ out.op = "none"
    /\ LET r == parse_rs(data)
       IN  /\ out' = [op |-> "parse_rs", input |-> data, ret |-> r]
           /\ data' = IF r.ok THEN r.data ELSE data
           /\ picross' = IF r.ok THEN r.val ELSE picross

NextParse == Parse \/ ParseRs

SpecParse == InitParse /\ [][NextParse]_vars

(***************************************************************************)
(* The token grammar, stated on the characters of a token and not on the   *)
(* parsing code, and the failures of the parser as the kinds of error the  *)
(* panics stand for.                                                       *)
(***************************************************************************)
\* one or more decimal digits
IsDecimal(t) == Len(t) >= 1 /\ \A i \in 1..Len(t) : t[i] \in Digits

\* the number a string of decimal digits writes
RECURSIVE DecimalValue(_)
DecimalValue(d) ==
    IF Len(d) = 0 THEN 0
    ELSE DigitValue(d[1]) * 10 ^ (Len(d) - 1) + DecimalValue(Tail(d))

\* the number a token writes, with or without a sign '+'
IntegerOf(t) == DecimalValue(IF t[1] = "+" THEN Tail(t) ELSE t)

\* what lies between the brackets of a token
Interior(t) == SubSeq(t, 2, Len(t) - 1)

\* '[', decimal integers separated by single ',', ']'
WellFormedClue(t) ==
    /\ Len(t) >= 2 /\ t[1] = "[" /\ t[Len(t)] = "]"
    /\ LET s == Interior(t)
       IN  \/ Len(s) = 0
           \/ /\ \A i \in 1..Len(s) : s[i] \in Digits \cup {","}
              /\ s[1] # "," /\ s[Len(s)] # ","
              /\ \A i \in 1..(Len(s) - 1) : ~(s[i] = "," /\ s[i + 1] = ",")

\* the integers written in a token, in their written order
ClueOf(t) ==
    LET s == Interior(t)
        commas == {i \in 1..Len(s) : s[i] = ","}
        \* the position of the k-th comma; 0 before the first, Len(s) + 1 after the last
        comma(k) == IF k = 0 THEN 0
                    ELSE IF k > Cardinality(commas) THEN Len(s) + 1
                    ELSE CHOOSE c \in commas : Cardinality({b \in commas : b < c}) = k - 1
    IN  IF Len(s) = 0 THEN <<>>
        ELSE [k \in 1..(Cardinality(commas) + 1) |->
                IntegerOf(SubSeq(s, comma(k - 1) + 1, comma(k) - 1))]

MissingField(r) ==
    ~r.ok /\ r.msg \in {<<"Expected to find a !", "height">>, <<"Expected to find a !", "length">>}

InvalidInteger(r) ==
    ~r.ok /\ r.msg \in {<<"Expected integer !", "height">>, <<"Expected integer !", "length">>,
                        <<"Expected integer and found '' in ''">>}

InvalidClueSyntax(r) ==
    ~r.ok /\ r.msg = <<"Expected '' to be of form [1,4,3...]">>

TokenCountMismatch(r) ==
    ~r.ok /\ r.msg \in {<<"Wrong number of specifications!">>,
                        <<"Wrong number of specifications given!">>}

Parsing == out.op \in {"parse", "parse_rs"}

\* C5: a parse that succeeds returns a board whose height and length are the
\* integers of tokens 0 and 1, whose row_spec is the height clues of the next
\* tokens in order, whose col_spec is the length clues of the tokens after
\* them in order, and whose cells are height rows of length Unknown cells.
C5_ParsedBoardIsTheTokens ==
    (Parsing /\ out.ret.ok) =>
        LET t == out.input
            p == out.ret.val
        IN  /\ Len(t) >= 2
            /\ p.height = IntegerOf(t[1])
            /\ p.length = IntegerOf(t[2])
            /\ Len(t) >= 2 + p.height + p.length
            /\ Len(p.row_spec) = p.height
            /\ \A y \in 1..p.height : p.row_spec[y] = ClueOf(t[2 + y])
            /\ Len(p.col_spec) = p.length
            /\ \A x \in 1..p.length : p.col_spec[x] = ClueOf(t[2 + p.height + x])
            /\ Len(p.cells) = p.height
            /\ \A y \in 1..p.height :
                 /\ Len(p.cells[y]) = p.length
                 /\ \A x \in 1..p.length : p.cells[y][x] = "Unknown"
            /\ picross = p

\* a parse of lib.rs returned a board with both row and column clues, the
\* two of different numbers and not all the same
C5_Witness ==
    /\ out.op = "parse" /\ out.ret.ok
    /\ picross.height >= 1 /\ picross.length >= 1
    /\ picross.height # picross.length
    /\ picross.row_spec[1] # picross.col_spec[1]
    /\ \E x \in 1..picross.length : Len(picross.col_spec[x]) = 2

\* C6 (as claimed): get_specs succeeds exactly on the tokens made of '[',
\* decimal integers of digits only separated by single ',', and ']', and
\* then returns those integers in their written order; it fails on every
\* other token.
C6_SucceedsExactlyOnWellFormed ==
    (out.op = "get_specs") =>
        LET t == out.input[1]
        IN  IF WellFormedClue(t)
            THEN out.ret.ok /\ out.ret.val = ClueOf(t)
            ELSE ~out.ret.ok

\* C7 (as claimed): parse fails with MissingField when the stream ends before
\* the height token or before the length token, and with InvalidInteger when
\* the height token or the length token is there but is not made of decimal
\* digits; the tokens are read in order, so the first of these decides.
C7_HeightAndLengthErrors ==
    Parsing =>
        LET t == out.input
        IN  /\ Len(t) = 0 => MissingField(out.ret)
            /\ (Len(t) >= 1 /\ ~IsDecimal(t[1])) => InvalidInteger(out.ret)
            /\ (Len(t) = 1 /\ IsDecimal(t[1])) => MissingField(out.ret)
            /\ (Len(t) >= 2 /\ IsDecimal(t[1]) /\ ~IsDecimal(t[2])) => InvalidInteger(out.ret)

\* height, length and every clue token that is there are well formed, and
\* fewer than height + length clue tokens are there
TooFewClues(t) ==
    /\ Len(t) >= 2 /\ IsDecimal(t[1]) /\ IsDecimal(t[2])
    /\ \A i \in 3..Len(t) : WellFormedClue(t[i])
    /\ Len(t) - 2 < IntegerOf(t[1]) + IntegerOf(t[2])

\* C8: with a valid height and length and only well-formed clue tokens, of
\* which there are fewer than height + length, parse fails with
\* TokenCountMismatch and returns no board.
C8_TooFewCluesIsMismatch ==
    (Parsing /\ TooFewClues(out.input)) =>
        (TokenCountMismatch(out.ret) /\ picross = NoBoard)

\* parse of lib.rs failed so on a stream that has all its row clues and
\* some but not all of its column clues
C8_Witness ==
    /\ out.op = "parse" /\ TooFewClues(out.input)
    /\ TokenCountMismatch(out.ret)
    /\ IntegerOf(out.input[1]) >= 1
    /\ Len(out.input) - 2 > IntegerOf(out.input[1])

(***************************************************************************)
(* The renderer's specification: a board written as a struct literal (of   *)
(* consistent sizes, or of any sizes) is given to to_string or to fmt.     *)
(***************************************************************************)
\* the run lengths of the rendered boards: of one digit and of two
RenderRuns == {1, 12}

RenderClues == SeqUpTo(RenderRuns, MaxClueLen)

InitRender ==
    /\ \E h \in 0..MaxDim, l \in 0..MaxDim :
         \/ \E rs \in [1..h -> RenderClues], cs \in [1..l -> RenderClues],
               c \in [1..h -> [1..l -> Cell]] :
                 picross = Picross(h, l, rs, cs, c)
         \/ \E rs \in SeqUpTo(SkewClues, MaxDim), cs \in SeqUpTo(SkewClues, MaxDim),
               c \in SeqUpTo(SeqUpTo(Cell, MaxDim), MaxDim) :
                 picross = Picross(h, l, rs, cs, c)
    /\ data = <<>>
    /\ out = NoOut

\* picross.to_string()
ToString ==
    /\ out.op = "none"
    /\ out' = [op |-> "to_string", ret |-> to_string(picross)]
    /\ UNCHANGED <<picross, data>>

\* format!("{}", picross)
Fmt ==
    /\ out.op = "none"
    /\ out' = [op |-> "fmt", ret |-> fmt(picross)]
    /\ UNCHANGED <<picross, data>>

NextRender == ToString \/ Fmt

SpecRender == InitRender /\ [][NextRender]_vars

(***************************************************************************)
(* The layout of the rendered text, stated on the text.                    *)
(***************************************************************************)
Rendering == out.op \in {"to_string", "fmt"}

\* the number of digits of the decimal numeral of n < 100
NumeralLen(n) == CHOOSE k \in 1..2 : n < 10 ^ k /\ (k > 1 => n >= 10 ^ (k - 1))

\* the decimal numeral of n: its k-th digit is the one whose value is the
\* quotient of n by the k-th power of ten from the left, modulo ten
Numeral(n) ==
    [k \in 1..NumeralLen(n) |->
        CHOOSE c \in Digits : DigitValue(c) = (n \div 10 ^ (NumeralLen(n) - k)) % 10]

\* the integers of a clue in clue order, joined by single spaces
RECURSIVE ClueString(_)
ClueString(clue) ==
    IF Len(clue) = 0 THEN <<>>
    ELSE IF Len(clue) = 1 THEN Numeral(clue[1])
    ELSE ClueString(SubSeq(clue, 1, Len(clue) - 1)) \o <<" ">> \o Numeral(clue[Len(clue)])

\* the largest of a non-empty set of numbers
Largest(S) == CHOOSE m \in S : \A n \in S : n <= m

\* the number of header lines and the width of the left margin
HeaderHeight(p) == Largest({Len(ClueString(p.col_spec[x])) : x \in 1..Len(p.col_spec)})

RowLabelWidth(p) == Largest({Len(ClueString(p.row_spec[y])) : y \in 1..Len(p.row_spec)})

\* the positions of the newlines of a text, and its k-th line without its newline
Newlines(text) == {i \in 1..Len(text) : text[i] = "\n"}

TextLine(text, k) ==
    LET nl == Newlines(text)
        end(j) == IF j = 0 THEN 0
                  ELSE CHOOSE e \in nl : Cardinality({b \in nl : b < e}) = j - 1
    IN  SubSeq(text, end(k - 1) + 1, end(k) - 1)

\* C9 (as claimed): rendering fails whenever height = 0 or length = 0,
\* whatever row_spec, col_spec and cells hold.
C9_ZeroSizeFails ==
    (Rendering /\ (picross.height = 0 \/ picross.length = 0)) => ~out.ret.ok

\* C10 (as claimed): in the header, the characters of column x on the header
\* lines, read from the top line to the bottom line, are the clue string of
\* col_spec[x] preceded by the spaces that bring it to the header's height.
C10_HeaderReadsDownwards ==
    (Rendering /\ out.ret.ok) =>
        LET H == HeaderHeight(picross)
            W == RowLabelWidth(picross)
        IN  \A x \in 1..Len(picross.col_spec) :
                LET c == ClueString(picross.col_spec[x])
                IN  [i \in 1..H |-> TextLine(out.ret.val, i)[W + 1 + x]]
                        = repeat(" ", H - Len(c)) \o c

Renderable(p) == SizesConsistent(p) /\ p.height >= 1 /\ p.length >= 1

\* the character that stands for a cell: '?' Unknown, ' ' White, '#' Black
Glyph(c) == IF c = "Unknown" THEN "?" ELSE IF c = "White" THEN " " ELSE "#"

\* C12: on a board of consistent sizes with height >= 1 and length >= 1,
\* the line of row y is the clue string of row_spec[y] preceded by the spaces
\* that bring it to row_label_width characters, then '|', then one character
\* for each cell of the row from left to right: '?', ' ' or '#'.
C12_RowLine ==
    (Rendering /\ Renderable(picross)) =>
        /\ out.ret.ok
        /\ LET H == HeaderHeight(picross)
               W == RowLabelWidth(picross)
           IN  \A y \in 1..picross.height :
                   LET c == ClueString(picross.row_spec[y])
                   IN  TextLine(out.ret.val, H + 1 + y) =
                           repeat(" ", W - Len(c)) \o c \o <<"|">>
                               \o [x \in 1..picross.length |-> Glyph(picross.cells[y][x])]

\* a board was rendered that has a row clue narrower than the margin and
\* cells of all three values
C12_Witness ==
    /\ Rendering /\ Renderable(picross) /\ out.ret.ok
    /\ HeaderHeight(picross) >= 1
    /\ \E y \in 1..picross.height :
         LET c == ClueString(picross.row_spec[y])
         IN  Len(c) >= 1 /\ Len(c) < RowLabelWidth(picross)
    /\ \A v \in Cell : \E y \in 1..picross.height : \E x \in 1..picross.length :
         picross.cells[y][x] = v

\* C13: the text of a board of consistent sizes with height >= 1 and
\* length >= 1 is header_height header lines, one separator line of
\* row_label_width dashes, '+' and length dashes, and height row lines; each
\* of these header_height + 1 + height lines ends with a newline and is
\* row_label_width + 1 + length characters wide, and nothing follows the last.
C13_TextShape ==
    (Rendering /\ Renderable(picross)) =>
        /\ out.ret.ok
        /\ LET H == HeaderHeight(picross)
               W == RowLabelWidth(picross)
               text == out.ret.val
           IN  /\ Cardinality(Newlines(text)) = H + 1 + picross.height
               /\ text[Len(text)] = "\n"
               /\ \A k \in 1..(H + 1 + picross.height) :
                      Len(TextLine(text, k)) = W + 1 + picross.length
               /\ TextLine(text, H + 1) =
                      repeat("-", W) \o <<"+">> \o repeat("-", picross.length)
               /\ \A k \in 1..H : TextLine(text, k)[W + 1] = "|"
               /\ \A y \in 1..picross.height : TextLine(text, H + 1 + y)[W + 1] = "|"

\* a board was rendered that has a header, more rows than columns and a
\* margin that is not as wide as the grid
C13_Witness ==
    /\ Rendering /\ Renderable(picross) /\ out.ret.ok
    /\ HeaderHeight(picross) >= 2
    /\ picross.height > picross.length
    /\ RowLabelWidth(picross) # picross.length

\* the parse that the last call was, on another stream
SameParse(d) == IF out.op = "parse" THEN parse(d) ELSE parse_rs(d)

\* C14: a parse that succeeds has taken exactly the first
\* 2 + height + length tokens of the stream, in order: the tokens after them
\* are left in the stream, a stream cut after them gives the same board, and
\* whatever follows a stream that parses does not make the parse fail.
C14_NoLookahead ==
    Parsing =>
        LET t == out.input
        IN  /\ out.ret.ok =>
                LET n == 2 + out.ret.val.height + out.ret.val.length
                IN  /\ Len(t) >= n
                    /\ data = SubSeq(t, n + 1, Len(t))
                    /\ SameParse(SubSeq(t, 1, n)) = Parsed(out.ret.val, <<>>)
            /\ \A k \in 0..Len(t) : SameParse(SubSeq(t, 1, k)).ok => out.ret.ok

\* a parse of lib.rs returned a board with row and column clues and left in
\* the stream a token that is neither an integer nor a clue
C14_Witness ==
    /\ out.op = "parse" /\ out.ret.ok
    /\ picross.height >= 1 /\ picross.length >= 1
    /\ Len(data) >= 1
    /\ ~WellFormedClue(data[1]) /\ ~parse_usize(data[1]).ok
    /\ data[1] = out.input[Len(out.input)]

(***************************************************************************)
(* The specification of a board's life: a stream is parsed, the cells of   *)
(* the board returned are assigned as a whole, and the board is validated. *)
(***************************************************************************)
LifeTokens ==
    { <<"1">>, <<"2">>,
      <<"[", "]">>, <<"[", "0", "]">>, <<"[", "1", "]">>, <<"[", "2", "]">>,
      <<"[", "1", ",", "0", "]">> }

InitLife ==
    /\ picross = NoBoard
    /\ data \in SeqUpTo(LifeTokens, MaxTokens)
    /\ out = NoOut

\* picross.cells = vec![...], on the board a parse has returned
SetCells ==
    /\ out.op = "parse" /\ out.ret.ok
    /\ \E c \in [1..picross.height -> [1..picross.length -> Cell]] :
         /\ c # picross.cells
         /\ picross' = [picross EXCEPT !.cells = c]
    /\ UNCHANGED <<data, out>>

NextLife == Parse \/ SetCells \/ IsValid

SpecLife == InitLife /\ [][NextLife]_vars

\* a clue with a run of length 0
HasZero(clue) == \E k \in 1..Len(clue) : clue[k] = 0

\* a board with a 0 in a row clue or in a column clue
ClueHasZero(p) ==
    \/ \E y \in 1..Len(p.row_spec) : HasZero(p.row_spec[y])
    \/ \E x \in 1..Len(p.col_spec) : HasZero(p.col_spec[x])

\* a stream with a valid height and length and, after them, height + length
\* well-formed clue tokens of which one writes a 0
StreamWithZero(t) ==
    /\ Len(t) >= 2 /\ IsDecimal(t[1]) /\ IsDecimal(t[2])
    /\ LET n == IntegerOf(t[1]) + IntegerOf(t[2])
       IN  /\ Len(t) >= 2 + n
           /\ \A i \in 3..(2 + n) : WellFormedClue(t[i])
           /\ \E i \in 3..(2 + n) : HasZero(ClueOf(t[i]))

\* a clue without its runs of length 0
WithoutZeros(clue) == SelectSeq(clue, LAMBDA v : v # 0)

\* C15: the parser accepts a run of length 0 in a clue token ("[0]",
\* "[1,0]") and returns it in the board's clue, and a board with a 0 in a row
\* clue or a column clue is not valid, whatever its cells are.
C15_ZeroRunParsedNeverValid ==
    /\ (out.op = "parse" /\ StreamWithZero(out.input)) =>
           (out.ret.ok /\ ClueHasZero(out.ret.val))
    /\ (out.op = "is_valid" /\ ClueHasZero(picross)) => out.ret = "false"

\* a parsed board with a 0 in a clue was found not valid with cells that
\* are all known, not all White, and match the clues without their zeros
C15_Witness ==
    /\ out.op = "is_valid" /\ out.ret = "false"
    /\ ClueHasZero(picross)
    /\ ~HasUnknown(picross)
    /\ \E y \in 1..picross.height : \E x \in 1..picross.length :
         picross.cells[y][x] = "Black"
    /\ BoardSatisfies([picross EXCEPT
          !.row_spec = [y \in 1..Len(picross.row_spec) |-> WithoutZeros(picross.row_spec[y])],
          !.col_spec = [x \in 1..Len(picross.col_spec) |-> WithoutZeros(picross.col_spec[x])]])

====
